---- MODULE Spec2Model ----
(***************************************************************************)
(* A model of folktexts' column-to-text layer and command-line entry point: *)
(*   - ColumnToText (src/folktexts/col_to_text.py): construction, lookup    *)
(*     (__getitem__) and sentence rendering (get_text);                     *)
(*   - parse_pums_code and the column registry                              *)
(*     (src/folktexts/acs/acs_columns.py): the code table loader with its   *)
(*     process-wide cache, and the module-level column definitions;         *)
(*   - the __main__ block of src/folktexts/cli/run_acs_benchmark.py.        *)
(*                                                                          *)
(* Python strings are sequences of one-character strings, so that parsing,  *)
(* post-processing and formatting are computed rather than assumed.         *)
(* Python dicts are functions with a finite domain (DOMAIN d is the key     *)
(* set).  An optional value is a sequence of length 0 (None / nothing) or 1.*)
(***************************************************************************)
EXTENDS Integers, Sequences, FiniteSets, TLC

VARIABLES
    ctorArgs,   \* arguments of the latest ColumnToText(...) call (<<>>: none yet)
    inst,       \* <<>> or <<the instance the latest constructor call returned>>
    lastOp,     \* the latest completed library call: [op, value, file, post]
    out,        \* <<>> or <<the string the latest call returned>>
    raised,     \* the exception the latest call raised ("none" if it returned)
    logs,       \* the log records the latest call emitted
    cache,      \* parse_pums_code's default `cache` dict: file -> code table
    reads,      \* per file, how many times open(file) has read it from disk
    thr,        \* per thread, the frame of its parse_pums_code call
    calls,      \* number of parse_pums_code calls started by the threads
    loadIdx,    \* module load of acs_columns: index of the next definition
    loadState,  \* "loading" | "loaded" | "aborted"
    registry,   \* module globals bound so far: variable name -> instance
    cli         \* the command-line run: its position, argv, args, config

vars ==
    <<ctorArgs, inst, lastOp, out, raised, logs, cache, reads, thr, calls,
      loadIdx, loadState, registry, cli>>

----------------------------------------------------------------------------
(* String literals of the source, as character sequences.                  *)

Str_NA ==
    <<"N", "/", "A">>

Str_The ==
    <<"T", "h", "e", " ">>

Str_Space ==
    <<" ">>

Str_Dot ==
    <<".">>

Str_is ==
    <<"i", "s">>

Str_was ==
    <<"w", "a", "s">>

Str_years_old ==
    <<" ", "y", "e", "a", "r", "s", " ", "o", "l", "d">>

Str_hours ==
    <<" ", "h", "o", "u", "r", "s">>

Str_The_race_is_Asian ==
    <<"T", "h", "e", " ", "r", "a", "c", "e", " ", "i", "s", " ", "A", "s",
      "i", "a", "n", ".">>

Str_Teacher ==
    <<"T", "e", "a", "c", "h", "e", "r">>

Str_SpTeacher ==
    <<" ", "T", "e", "a", "c", "h", "e", "r">>

Line_Teacher ==
    <<"6", " ", ".", " ", "T", "e", "a", "c", "h", "e", "r", "\n">>

Line_Note ==
    <<"P", "U", "M", "S", " ", "c", "o", "d", "e", "s", "\n">>

Line_Ed ==
    <<"0", "0", "7", " ", ".", "E", "d">>

Line_Boss ==
    <<"0", "0", "1", "0", " ", ".", "M", "G", "R", "-", "B", "o", "s", "s",
      "\n">>

Line_Tutor ==
    <<"6", " ", ".", "E", "D", "U", "-", "T", "u", "t", "o", "r", " ", "\n">>

Filter_SEX_1 ==
    <<"S", "E", "X", "=", "1">>

Filter_SEX ==
    <<"S", "E", "X">>

Filter_A_1_2 ==
    <<"A", "=", "1", "=", "2">>

----------------------------------------------------------------------------
(* Characters and the str methods the source uses.                         *)

Digits ==
    <<"0", "1", "2", "3", "4", "5", "6", "7", "8", "9">>

UpperAlpha ==
    <<"A", "B", "C", "D", "E", "F", "G", "H", "I", "J", "K", "L", "M",
      "N", "O", "P", "Q", "R", "S", "T", "U", "V", "W", "X", "Y", "Z">>

LowerAlpha ==
    <<"a", "b", "c", "d", "e", "f", "g", "h", "i", "j", "k", "l", "m",
      "n", "o", "p", "q", "r", "s", "t", "u", "v", "w", "x", "y", "z">>

IsDigit(c) ==
    \E i \in 1..Len(Digits) : Digits[i] = c

IsSpace(c) ==
    c \in {" ", "\t", "\n", "\r"}

DigitValue(c) ==
    (CHOOSE i \in 1..Len(Digits) : Digits[i] = c) - 1

\* int(code) for a string of decimal digits
RECURSIVE StrToInt(_)
StrToInt(s) ==
    IF s = <<>> THEN 0
    ELSE 10 * StrToInt(SubSeq(s, 1, Len(s) - 1)) + DigitValue(s[Len(s)])

\* str(n) / f"{n}" for an integer n
RECURSIVE NatToStr(_)
NatToStr(n) ==
    IF n < 10 THEN <<Digits[n + 1]>>
    ELSE NatToStr(n \div 10) \o <<Digits[(n % 10) + 1]>>

IntToStr(n) ==
    IF n < 0 THEN <<"-">> \o NatToStr(0 - n) ELSE NatToStr(n)

LowerChar(c) ==
    IF \E i \in 1..Len(UpperAlpha) : UpperAlpha[i] = c
    THEN LowerAlpha[CHOOSE i \in 1..Len(UpperAlpha) : UpperAlpha[i] = c]
    ELSE c

\* str.lower()
StrLower(s) ==
    [i \in 1..Len(s) |-> LowerChar(s[i])]

\* s[n:]
StrFrom(s, n) ==
    SubSeq(s, n + 1, Len(s))

\* str.strip()
RECURSIVE StrStrip(_)
StrStrip(s) ==
    IF s = <<>> THEN s
    ELSE IF IsSpace(s[1]) THEN StrStrip(Tail(s))
    ELSE IF IsSpace(s[Len(s)]) THEN StrStrip(SubSeq(s, 1, Len(s) - 1))
    ELSE s

\* an f-string: the concatenation of its pieces, left to right
RECURSIVE FString(_)
FString(pieces) ==
    IF pieces = <<>> THEN <<>>
    ELSE Head(pieces) \o FString(Tail(pieces))

----------------------------------------------------------------------------
(* The code table loader: parse_pums_code.                                 *)

\* number of leading characters of s that satisfy the class (a greedy x+)
RECURSIVE DigitRun(_)
DigitRun(s) ==
    IF s # <<>> /\ IsDigit(s[1]) THEN 1 + DigitRun(Tail(s)) ELSE 0

RECURSIVE SpaceRun(_)
SpaceRun(s) ==
    IF s # <<>> /\ IsSpace(s[1]) THEN 1 + SpaceRun(Tail(s)) ELSE 0

RECURSIVE NonNewlineRun(_)
NonNewlineRun(s) ==
    IF s # <<>> /\ s[1] # "\n" THEN 1 + NonNewlineRun(Tail(s)) ELSE 0

\* line_re.match(line) for r"(?P<code>\d+)\s+[.](?P<description>.+)$":
\* <<>> when there is no match, else <<[code, description]>>.  The classes
\* \d, \s and [.] are disjoint, so the greedy runs are the only candidates;
\* "$" matches at the end of the line or before its final newline.
LineMatch(line) ==
    LET nd    == DigitRun(line)
        rest1 == StrFrom(line, nd)
        ns    == SpaceRun(rest1)
        rest2 == StrFrom(rest1, ns)
        rest3 == StrFrom(rest2, 1)
        n     == NonNewlineRun(rest3)
        after == StrFrom(rest3, n)
    IN  IF /\ nd >= 1
           /\ ns >= 1
           /\ rest2 # <<>>
           /\ rest2[1] = "."
           /\ n >= 1
           /\ after \in {<<>>, <<"\n">>}
        THEN <<[code |-> SubSeq(line, 1, nd), description |-> SubSeq(rest3, 1, n)]>>
        ELSE <<>>

\* The text transforms the registry passes as `postprocess`:
\* "none" is postprocess=None, "occp" is lambda x: x[4:].lower().strip().
Posts ==
    {"none", "occp"}

\* A variant of PostProcess that strips every description, transform or not.
PostProcess_AlwaysStrip(post, description) ==
    IF post = "occp" THEN StrStrip(StrLower(StrFrom(description, 4)))
    ELSE StrStrip(description)

PostProcess(post, description) ==
    IF post = "occp" THEN StrStrip(StrLower(StrFrom(description, 4)))
    ELSE description

\* The reference files on disk, by path: each a sequence of lines as file
\* iteration yields them (with the line's newline, if it has one).
Disk ==
    [pobp |-> <<Line_Teacher, Line_Note, Line_Ed>>,
     occp |-> <<Line_Boss, Line_Tutor>>]

\* Paths a caller may pass; "nofile" names no file on disk.
Files ==
    DOMAIN Disk \cup {"nofile"}

\* Codes a caller may ask for.
Codes ==
    {6, 7, 10, 9999}

\* d[k] = v on a dict
DictSet(d, k, v) ==
    (k :> v) @@ d

\* A variant of InCache that never finds the file: the check always fails.
InCache_Never(c, file) ==
    FALSE

\* `file not in cache`, negated
InCache(c, file) ==
    file \in DOMAIN c

\* One iteration of the loop over the file's lines: a matching line sets
\* file_cache[int(code)]; any other line is logged and skipped.
ParseLine(file_cache, line, post) ==
    LET m == LineMatch(line)
    IN  IF m = <<>> THEN file_cache
        ELSE DictSet(file_cache, StrToInt(m[1].code),
                     PostProcess(post, m[1].description))

\* The whole loop: file_cache = {} then every line in order.
RECURSIVE ParseLines(_, _, _)
ParseLines(file_cache, lines, post) ==
    IF lines = <<>> THEN file_cache
    ELSE ParseLines(ParseLine(file_cache, Head(lines), post), Tail(lines), post)

LoadTable(file, post) ==
    ParseLines(<<>>, Disk[file], post)

\* logging.error for each line that does not match
ParseLogs(file) ==
    IF \E i \in 1..Len(Disk[file]) : LineMatch(Disk[file][i]) = <<>>
    THEN {"error: could not parse line"} ELSE {}

\* cache[file] = file_cache
StoreTable(c, file, file_cache) ==
    DictSet(c, file, file_cache)

\* The return value: the table's entry, or the literal "N/A".
LookupCode(file_cache, value) ==
    IF value \notin DOMAIN file_cache THEN Str_NA ELSE file_cache[value]

LookupLogs(file_cache, value) ==
    IF value \notin DOMAIN file_cache THEN {"warning: could not find code"} ELSE {}

\* A result of a library call: what it returned or raised, what it logged,
\* and the cache and read counters it leaves behind.
Result(o, exc, lg, c, r) ==
    [out |-> o, raised |-> exc, logs |-> lg, cache |-> c, reads |-> r]

\* A variant of ParsePumsCode whose cache is keyed by path and transform: a
\* call for a cached path answers with its own transform applied.
ParsePumsCode_OwnTransform(value, file, post, c, r) ==
    IF InCache(c, file)
    THEN Result(<<LookupCode(LoadTable(file, post), value)>>, "none",
                LookupLogs(c[file], value), c, r)
    ELSE IF file \notin DOMAIN Disk
    THEN Result(<<>>, "FileNotFoundError", {}, c, r)
    ELSE LET file_cache == LoadTable(file, post)
             c2 == StoreTable(c, file, file_cache)
             r2 == [r EXCEPT ![file] = @ + 1]
         IN  Result(<<LookupCode(c2[file], value)>>, "none",
                    ParseLogs(file) \cup LookupLogs(c2[file], value), c2, r2)

\* parse_pums_code(value, file, postprocess) run to completion on the default
\* cache c, with disk read counters r.
ParsePumsCode(value, file, post, c, r) ==
    IF InCache(c, file)
    THEN Result(<<LookupCode(c[file], value)>>, "none",
                LookupLogs(c[file], value), c, r)
    ELSE IF file \notin DOMAIN Disk
    THEN Result(<<>>, "FileNotFoundError", {}, c, r)
    ELSE LET file_cache == LoadTable(file, post)
             c2 == StoreTable(c, file, file_cache)
             r2 == [r EXCEPT ![file] = @ + 1]
         IN  Result(<<LookupCode(c2[file], value)>>, "none",
                    ParseLogs(file) \cup LookupLogs(c2[file], value), c2, r2)

----------------------------------------------------------------------------
(* Questions and choices (folktexts.qa_interface / folktexts.questions).   *)

\* Choice(text, value): the numeric_value of a choice is read by no
\* operation modelled here and is left out.
Choice(text, value) ==
    [text |-> text, value |-> value]

\* question=None
NoQ ==
    [kind |-> "none", choices |-> <<>>]

\* A multiple-choice question with the given choices.  isinstance(q,
\* MultipleChoiceQA) is q.kind = "mcq".
QuestionOf(choices) ==
    [kind |-> "mcq", choices |-> choices]

\* A QAInterface that is not a MultipleChoiceQA.
OpenQ ==
    [kind |-> "open", choices |-> <<>>]

\* A dict literal {k1: t1, k2: t2, ...} from its items in order (a later
\* item with the same key wins).
RECURSIVE DictOf(_)
DictOf(items) ==
    IF items = <<>> THEN <<>>
    ELSE DictSet(DictOf(SubSeq(items, 1, Len(items) - 1)),
                 items[Len(items)][1], items[Len(items)][2])

\* MultipleChoiceQA.get_value_to_text_map: each choice's value -> its text
GetValueToTextMap(q) ==
    DictOf([i \in 1..Len(q.choices) |-> <<q.choices[i].value, q.choices[i].text>>])

\* The keys of an integer-keyed dict, in increasing order (the order in
\* which the source's dict literals list them).
RECURSIVE KeysInOrder(_)
KeysInOrder(keys) ==
    IF keys = {} THEN <<>>
    ELSE LET k == CHOOSE x \in keys : \A y \in keys : x <= y
         IN  <<k>> \o KeysInOrder(keys \ {k})

\* MultipleChoiceQA.create_question_from_value_map: one choice per
\* (value, text) item of the dict
CreateQuestionFromValueMap(value_map) ==
    LET ks == KeysInOrder(DOMAIN value_map)
    IN  QuestionOf([i \in 1..Len(ks) |-> Choice(value_map[ks[i]], ks[i])])

----------------------------------------------------------------------------
(* ColumnToText.                                                           *)

\* The `value_map` argument: None, a dict, a callable, or anything else
\* (an object that is neither callable nor a dict, such as a list).
NoneVM ==
    [kind |-> "none", map |-> <<>>, fn |-> "-", file |-> "-", post |-> "-"]

DictVM(d) ==
    [kind |-> "dict", map |-> d, fn |-> "-", file |-> "-", post |-> "-"]

\* lambda x: f"{int(x)} years old" ("age"), lambda x: f"{int(x)} hours" ("hours")
CallVM(fn) ==
    [kind |-> "callable", map |-> <<>>, fn |-> fn, file |-> "-", post |-> "-"]

\* partial(parse_pums_code, file=file, postprocess=post)
PumsVM(file, post) ==
    [kind |-> "callable", map |-> <<>>, fn |-> "pums", file |-> file, post |-> post]

OtherVM ==
    [kind |-> "other", map |-> <<>>, fn |-> "-", file |-> "-", post |-> "-"]

\* The arguments of one ColumnToText(...) call.
Args(name, short_description, value_map, question, connector_verb, missing_value_fill) ==
    [name |-> name, short_description |-> short_description,
     value_map |-> value_map, question |-> question,
     connector_verb |-> connector_verb,
     missing_value_fill |-> missing_value_fill]

\* What a constructor call yields: <<>> or <<the instance>>, the exception
\* it raised, and what it logged.
Made(i, exc, lg) ==
    [inst |-> i, raised |-> exc, logs |-> lg]

\* A variant of ColumnToTextInit without the isinstance check: a question
\* that is not multiple-choice is accepted and the value map stays None.
ColumnToTextInit_NoQuestionCheck(a) ==
    IF a.question.kind # "none" /\ a.value_map.kind = "none"
    THEN IF a.question.kind = "mcq"
         THEN Made(<<[a EXCEPT !.value_map = DictVM(GetValueToTextMap(a.question))]>>,
                   "none", {})
         ELSE Made(<<a>>, "none", {})
    ELSE IF a.value_map.kind # "none" /\ a.question.kind = "none"
    THEN IF a.value_map.kind = "dict"
         THEN Made(<<[a EXCEPT !.question = CreateQuestionFromValueMap(a.value_map.map)]>>,
                   "none", {})
         ELSE Made(<<a>>, "none", {})
    ELSE IF a.value_map.kind # "none" /\ a.question.kind # "none"
    THEN Made(<<a>>, "none", {"warning: got both value_map and question"})
    ELSE Made(<<>>, "ValueError: neither value_map nor question", {})

\* ColumnToText.__init__: the fields are assigned from the arguments, then
\* the missing one of value_map / question is inferred from the other.
ColumnToTextInit(a) ==
    IF a.question.kind # "none" /\ a.value_map.kind = "none"
    THEN IF a.question.kind = "mcq"
         THEN Made(<<[a EXCEPT !.value_map = DictVM(GetValueToTextMap(a.question))]>>,
                   "none", {})
         ELSE Made(<<>>, "ValueError: cannot infer value map", {})
    ELSE IF a.value_map.kind # "none" /\ a.question.kind = "none"
    THEN IF a.value_map.kind = "dict"
         THEN Made(<<[a EXCEPT !.question = CreateQuestionFromValueMap(a.value_map.map)]>>,
                   "none", {})
         ELSE Made(<<a>>, "none", {})
    ELSE IF a.value_map.kind # "none" /\ a.question.kind # "none"
    THEN Made(<<a>>, "none", {"warning: got both value_map and question"})
    ELSE Made(<<>>, "ValueError: neither value_map nor question", {})

\* The callables the registry uses as value maps, applied to a value.
CallValueMap(vm, value, c, r) ==
    IF vm.fn = "pums" THEN ParsePumsCode(value, vm.file, vm.post, c, r)
    ELSE IF vm.fn = "age"
    THEN Result(<<FString(<<IntToStr(value), Str_years_old>>)>>, "none", {}, c, r)
    ELSE Result(<<FString(<<IntToStr(value), Str_hours>>)>>, "none", {}, c, r)

\* A variant of HelperFunc that falls back to the literal "N/A" instead of
\* the configured missing_value_fill.
HelperFunc_LiteralFill(self, value, c, r) ==
    IF value \notin DOMAIN self.value_map.map
    THEN Result(<<Str_NA>>, "none",
                {"error: could not find value in value map"}, c, r)
    ELSE Result(<<self.value_map.map[value]>>, "none", {}, c, r)

\* _helper_func of the value_map property: the dict's entry, or
\* missing_value_fill (with an error logged) for a value that is no key.
HelperFunc(self, value, c, r) ==
    IF value \notin DOMAIN self.value_map.map
    THEN Result(<<self.missing_value_fill>>, "none",
                {"error: could not find value in value map"}, c, r)
    ELSE Result(<<self.value_map.map[value]>>, "none", {}, c, r)

\* A variant of GetItem whose value_map property does not check the type:
\* whatever is not callable is looked up like a dict.
GetItem_NoTypeCheck(self, value, c, r) ==
    IF self.value_map.kind = "callable" THEN CallValueMap(self.value_map, value, c, r)
    ELSE HelperFunc(self, value, c, r)

\* __getitem__: self.value_map(value), where the value_map property gives
\* the callable itself, the dict's helper, or raises for any other type.
GetItem(self, value, c, r) ==
    IF self.value_map.kind = "callable" THEN CallValueMap(self.value_map, value, c, r)
    ELSE IF self.value_map.kind = "dict" THEN HelperFunc(self, value, c, r)
    ELSE Result(<<>>, "ValueError: invalid value map type", {}, c, r)

\* A variant of GetText whose template lacks the final period.
GetText_NoPeriod(self, value, c, r) ==
    LET item == GetItem(self, value, c, r)
    IN  IF item.raised # "none" THEN item
        ELSE [item EXCEPT !.out =
                <<FString(<<Str_The, self.short_description, Str_Space,
                            self.connector_verb, Str_Space, item.out[1]>>)>>]

\* get_text: f"The {self.short_description} {self._connector_verb} {self[value]}."
GetText(self, value, c, r) ==
    LET item == GetItem(self, value, c, r)
    IN  IF item.raised # "none" THEN item
        ELSE [item EXCEPT !.out =
                <<FString(<<Str_The, self.short_description, Str_Space,
                            self.connector_verb, Str_Space, item.out[1],
                            Str_Dot>>)>>]

----------------------------------------------------------------------------
(* The column registry: the module-level definitions of acs_columns.py.   *)

SD_AGEP ==
    <<"a", "g", "e">>

Def_AGEP ==
    [var |-> "acs_age", args |-> Args("AGEP", SD_AGEP, CallVM("age"), NoQ, Str_is, Str_NA)]

SD_COW ==
    <<"c", "u", "r", "r", "e", "n", "t", " ", "e", "m", "p", "l", "o", "y",
      "m", "e", "n", "t", " ", "s", "t", "a", "t", "u", "s">>

Choices_COW ==
    <<
      Choice(<<"w", "o", "r", "k", "i", "n", "g", " ", "f", "o", "r", " ", "a", " ",
      "f", "o", "r", "-", "p", "r", "o", "f", "i", "t", " ", "p", "r", "i",
      "v", "a", "t", "e", " ", "c", "o", "m", "p", "a", "n", "y", " ", "o",
      "r", " ", "o", "r", "g", "a", "n", "i", "z", "a", "t", "i", "o", "n">>, 1),
      Choice(<<"w", "o", "r", "k", "i", "n", "g", " ", "f", "o", "r", " ", "a", " ",
      "n", "o", "n", "-", "p", "r", "o", "f", "i", "t", " ", "o", "r", "g",
      "a", "n", "i", "z", "a", "t", "i", "o", "n">>, 2),
      Choice(<<"w", "o", "r", "k", "i", "n", "g", " ", "f", "o", "r", " ", "t", "h",
      "e", " ", "l", "o", "c", "a", "l", " ", "g", "o", "v", "e", "r", "n",
      "m", "e", "n", "t">>, 3),
      Choice(<<"w", "o", "r", "k", "i", "n", "g", " ", "f", "o", "r", " ", "t", "h",
      "e", " ", "s", "t", "a", "t", "e", " ", "g", "o", "v", "e", "r", "n",
      "m", "e", "n", "t">>, 4),
      Choice(<<"w", "o", "r", "k", "i", "n", "g", " ", "f", "o", "r", " ", "t", "h",
      "e", " ", "f", "e", "d", "e", "r", "a", "l", " ", "g", "o", "v", "e",
      "r", "n", "m", "e", "n", "t">>, 5),
      Choice(<<"o", "w", "n", "e", "r", " ", "o", "f", " ", "n", "o", "n", "-", "i",
      "n", "c", "o", "r", "p", "o", "r", "a", "t", "e", "d", " ", "b", "u",
      "s", "i", "n", "e", "s", "s", ",", " ", "p", "r", "o", "f", "e", "s",
      "s", "i", "o", "n", "a", "l", " ", "p", "r", "a", "c", "t", "i", "c",
      "e", ",", " ", "o", "r", " ", "f", "a", "r", "m">>, 6),
      Choice(<<"o", "w", "n", "e", "r", " ", "o", "f", " ", "i", "n", "c", "o", "r",
      "p", "o", "r", "a", "t", "e", "d", " ", "b", "u", "s", "i", "n", "e",
      "s", "s", ",", " ", "p", "r", "o", "f", "e", "s", "s", "i", "o", "n",
      "a", "l", " ", "p", "r", "a", "c", "t", "i", "c", "e", ",", " ", "o",
      "r", " ", "f", "a", "r", "m">>, 7),
      Choice(<<"w", "o", "r", "k", "i", "n", "g", " ", "w", "i", "t", "h", "o", "u",
      "t", " ", "p", "a", "y", " ", "i", "n", " ", "a", " ", "f", "o", "r",
      "-", "p", "r", "o", "f", "i", "t", " ", "f", "a", "m", "i", "l", "y",
      " ", "b", "u", "s", "i", "n", "e", "s", "s", " ", "o", "r", " ", "f",
      "a", "r", "m">>, 8),
      Choice(<<"u", "n", "e", "m", "p", "l", "o", "y", "e", "d", " ", "a", "n", "d",
      " ", "l", "a", "s", "t", " ", "w", "o", "r", "k", "e", "d", " ", "5",
      " ", "y", "e", "a", "r", "s", " ", "a", "g", "o", " ", "o", "r", " ",
      "e", "a", "r", "l", "i", "e", "r", " ", "o", "r", " ", "n", "e", "v",
      "e", "r", " ", "w", "o", "r", "k", "e", "d">>, 9)>>

Def_COW ==
    [var |-> "acs_class_of_worker", args |-> Args("COW", SD_COW, NoneVM, QuestionOf(Choices_COW), Str_is, Str_NA)]

SD_SCHL ==
    <<"h", "i", "g", "h", "e", "s", "t", " ", "g", "r", "a", "d", "e", " ",
      "c", "o", "m", "p", "l", "e", "t", "e", "d">>

Choices_SCHL ==
    <<
      Choice(<<"k", "i", "n", "d", "e", "r", "g", "a", "r", "t", "e", "n">>, 3),
      Choice(<<"1", "s", "t", " ", "g", "r", "a", "d", "e", " ", "o", "n", "l", "y">>, 4),
      Choice(<<"2", "n", "d", " ", "g", "r", "a", "d", "e">>, 5),
      Choice(<<"3", "r", "d", " ", "g", "r", "a", "d", "e">>, 6),
      Choice(<<"4", "t", "h", " ", "g", "r", "a", "d", "e">>, 7),
      Choice(<<"5", "t", "h", " ", "g", "r", "a", "d", "e">>, 8),
      Choice(<<"6", "t", "h", " ", "g", "r", "a", "d", "e">>, 9),
      Choice(<<"7", "t", "h", " ", "g", "r", "a", "d", "e">>, 10),
      Choice(<<"8", "t", "h", " ", "g", "r", "a", "d", "e">>, 11),
      Choice(<<"9", "t", "h", " ", "g", "r", "a", "d", "e">>, 12),
      Choice(<<"1", "0", "t", "h", " ", "g", "r", "a", "d", "e">>, 13),
      Choice(<<"1", "1", "t", "h", " ", "g", "r", "a", "d", "e">>, 14),
      Choice(<<"1", "2", "t", "h", " ", "g", "r", "a", "d", "e", ",", " ", "n", "o",
      " ", "d", "i", "p", "l", "o", "m", "a">>, 15),
      Choice(<<"r", "e", "g", "u", "l", "a", "r", " ", "h", "i", "g", "h", " ", "s",
      "c", "h", "o", "o", "l", " ", "d", "i", "p", "l", "o", "m", "a">>, 16),
      Choice(<<"G", "E", "D", " ", "o", "r", " ", "a", "l", "t", "e", "r", "n", "a",
      "t", "i", "v", "e", " ", "c", "r", "e", "d", "e", "n", "t", "i", "a",
      "l">>, 17),
      Choice(<<"s", "o", "m", "e", " ", "c", "o", "l", "l", "e", "g", "e", ",", " ",
      "l", "e", "s", "s", " ", "t", "h", "a", "n", " ", "1", " ", "y", "e",
      "a", "r">>, 18),
      Choice(<<"s", "o", "m", "e", " ", "c", "o", "l", "l", "e", "g", "e", ",", " ",
      "1", " ", "o", "r", " ", "m", "o", "r", "e", " ", "y", "e", "a", "r",
      "s", ",", " ", "n", "o", " ", "d", "e", "g", "r", "e", "e">>, 19),
      Choice(<<"A", "s", "s", "o", "c", "i", "a", "t", "e", "'", "s", " ", "d", "e",
      "g", "r", "e", "e">>, 20),
      Choice(<<"B", "a", "c", "h", "e", "l", "o", "r", "'", "s", " ", "d", "e", "g",
      "r", "e", "e">>, 21),
      Choice(<<"M", "a", "s", "t", "e", "r", "'", "s", " ", "d", "e", "g", "r", "e",
      "e">>, 22),
      Choice(<<"P", "r", "o", "f", "e", "s", "s", "i", "o", "n", "a", "l", " ", "d",
      "e", "g", "r", "e", "e", " ", "b", "e", "y", "o", "n", "d", " ", "a",
      " ", "b", "a", "c", "h", "e", "l", "o", "r", "'", "s", " ", "d", "e",
      "g", "r", "e", "e">>, 23),
      Choice(<<"D", "o", "c", "t", "o", "r", "a", "t", "e", " ", "d", "e", "g", "r",
      "e", "e">>, 24)>>

Def_SCHL ==
    [var |-> "acs_schooling", args |-> Args("SCHL", SD_SCHL, NoneVM, QuestionOf(Choices_SCHL), Str_is, Str_NA)]

SD_MAR ==
    <<"m", "a", "r", "i", "t", "a", "l", " ", "s", "t", "a", "t", "u", "s">>

Map_MAR ==
    DictOf(<<
      <<1, <<"m", "a", "r", "r", "i", "e", "d">>>>,
      <<2, <<"w", "i", "d", "o", "w", "e", "d">>>>,
      <<3, <<"d", "i", "v", "o", "r", "c", "e", "d">>>>,
      <<4, <<"s", "e", "p", "a", "r", "a", "t", "e", "d">>>>,
      <<5, <<"n", "e", "v", "e", "r", " ", "m", "a", "r", "r", "i", "e", "d">>>>>>)

Def_MAR ==
    [var |-> "acs_marital_status", args |-> Args("MAR", SD_MAR, DictVM(Map_MAR), NoQ, Str_is, Str_NA)]

SD_OCCP ==
    <<"o", "c", "c", "u", "p", "a", "t", "i", "o", "n">>

Def_OCCP ==
    [var |-> "acs_occupation", args |-> Args("OCCP", SD_OCCP, PumsVM("occp", "occp"), NoQ, Str_is, Str_NA)]

SD_POBP ==
    <<"p", "l", "a", "c", "e", " ", "o", "f", " ", "b", "i", "r", "t", "h">>

Def_POBP ==
    [var |-> "acs_place_of_birth", args |-> Args("POBP", SD_POBP, PumsVM("pobp", "none"), NoQ, Str_is, Str_NA)]

SD_RELP ==
    <<"r", "e", "l", "a", "t", "i", "o", "n", "s", "h", "i", "p", " ", "t",
      "o", " ", "t", "h", "e", " ", "r", "e", "f", "e", "r", "e", "n", "c",
      "e", " ", "p", "e", "r", "s", "o", "n", " ", "i", "n", " ", "t", "h",
      "e", " ", "h", "o", "u", "s", "e", "h", "o", "l", "d">>

Choices_RELP ==
    <<
      Choice(<<"t", "h", "e", " ", "'", "r", "e", "f", "e", "r", "e", "n", "c", "e",
      " ", "p", "e", "r", "s", "o", "n", "'", " ", "i", "t", "s", "e", "l",
      "f">>, 0),
      Choice(<<"h", "u", "s", "b", "a", "n", "d", "/", "w", "i", "f", "e">>, 1),
      Choice(<<"b", "i", "o", "l", "o", "g", "i", "c", "a", "l", " ", "s", "o", "n",
      " ", "o", "r", " ", "d", "a", "u", "g", "h", "t", "e", "r">>, 2),
      Choice(<<"a", "d", "o", "p", "t", "e", "d", " ", "s", "o", "n", " ", "o", "r",
      " ", "d", "a", "u", "g", "h", "t", "e", "r">>, 3),
      Choice(<<"s", "t", "e", "p", "s", "o", "n", " ", "o", "r", " ", "s", "t", "e",
      "p", "d", "a", "u", "g", "h", "t", "e", "r">>, 4),
      Choice(<<"b", "r", "o", "t", "h", "e", "r", " ", "o", "r", " ", "s", "i", "s",
      "t", "e", "r">>, 5),
      Choice(<<"f", "a", "t", "h", "e", "r", " ", "o", "r", " ", "m", "o", "t", "h",
      "e", "r">>, 6),
      Choice(<<"g", "r", "a", "n", "d", "c", "h", "i", "l", "d">>, 7),
      Choice(<<"p", "a", "r", "e", "n", "t", "-", "i", "n", "-", "l", "a", "w">>, 8),
      Choice(<<"s", "o", "n", "-", "i", "n", "-", "l", "a", "w", " ", "o", "r", " ",
      "d", "a", "u", "g", "h", "t", "e", "r", "-", "i", "n", "-", "l", "a",
      "w">>, 9),
      Choice(<<"o", "t", "h", "e", "r", " ", "r", "e", "l", "a", "t", "i", "v", "e">>, 10),
      Choice(<<"r", "o", "o", "m", "e", "r", " ", "o", "r", " ", "b", "o", "a", "r",
      "d", "e", "r">>, 11),
      Choice(<<"h", "o", "u", "s", "e", "m", "a", "t", "e", " ", "o", "r", " ", "r",
      "o", "o", "m", "m", "a", "t", "e">>, 12),
      Choice(<<"u", "n", "m", "a", "r", "r", "i", "e", "d", " ", "p", "a", "r", "t",
      "n", "e", "r">>, 13),
      Choice(<<"f", "o", "s", "t", "e", "r", " ", "c", "h", "i", "l", "d">>, 14),
      Choice(<<"o", "t", "h", "e", "r", " ", "n", "o", "n", "-", "r", "e", "l", "a",
      "t", "i", "v", "e">>, 15),
      Choice(<<"i", "n", "s", "t", "i", "t", "u", "t", "i", "o", "n", "a", "l", "i",
      "z", "e", "d", " ", "g", "r", "o", "u", "p", " ", "q", "u", "a", "r",
      "t", "e", "r", "s", " ", "p", "o", "p", "u", "l", "a", "t", "i", "o",
      "n">>, 16),
      Choice(<<"n", "o", "n", "-", "i", "n", "s", "t", "i", "t", "u", "t", "i", "o",
      "n", "a", "l", "i", "z", "e", "d", " ", "g", "r", "o", "u", "p", " ",
      "q", "u", "a", "r", "t", "e", "r", "s", " ", "p", "o", "p", "u", "l",
      "a", "t", "i", "o", "n">>, 17)>>

Def_RELP ==
    [var |-> "acs_relationship", args |-> Args("RELP", SD_RELP, NoneVM, QuestionOf(Choices_RELP), Str_is, Str_NA)]

SD_WKHP ==
    <<"u", "s", "u", "a", "l", " ", "n", "u", "m", "b", "e", "r", " ", "o",
      "f", " ", "h", "o", "u", "r", "s", " ", "w", "o", "r", "k", "e", "d",
      " ", "p", "e", "r", " ", "w", "e", "e", "k">>

Fill_WKHP ==
    <<"N", "/", "A", " ", "(", "l", "e", "s", "s", " ", "t", "h", "a", "n",
      " ", "1", "6", " ", "y", "e", "a", "r", "s", " ", "o", "l", "d", ",",
      " ", "o", "r", " ", "d", "i", "d", " ", "n", "o", "t", " ", "w", "o",
      "r", "k", " ", "d", "u", "r", "i", "n", "g", " ", "t", "h", "e", " ",
      "p", "a", "s", "t", " ", "1", "2", " ", "m", "o", "n", "t", "h", "s",
      ")">>

Def_WKHP ==
    [var |-> "acs_work_hours", args |-> Args("WKHP", SD_WKHP, CallVM("hours"), NoQ, Str_is, Fill_WKHP)]

SD_SEX ==
    <<"s", "e", "x">>

Choices_SEX ==
    <<
      Choice(<<"M", "a", "l", "e">>, 1),
      Choice(<<"F", "e", "m", "a", "l", "e">>, 2)>>

Def_SEX ==
    [var |-> "acs_sex", args |-> Args("SEX", SD_SEX, NoneVM, QuestionOf(Choices_SEX), Str_is, Str_NA)]

SD_RAC1P ==
    <<"r", "a", "c", "e">>

Map_RAC1P ==
    DictOf(<<
      <<1, <<"W", "h", "i", "t", "e">>>>,
      <<2, <<"B", "l", "a", "c", "k", " ", "o", "r", " ", "A", "f", "r", "i", "c",
      "a", "n", " ", "A", "m", "e", "r", "i", "c", "a", "n">>>>,
      <<3, <<"A", "m", "e", "r", "i", "c", "a", "n", " ", "I", "n", "d", "i", "a",
      "n">>>>,
      <<4, <<"A", "l", "a", "s", "k", "a", " ", "N", "a", "t", "i", "v", "e">>>>,
      <<5, <<"A", "m", "e", "r", "i", "c", "a", "n", " ", "I", "n", "d", "i", "a",
      "n", " ", "a", "n", "d", " ", "A", "l", "a", "s", "k", "a", " ", "N",
      "a", "t", "i", "v", "e", " ", "t", "r", "i", "b", "e", "s", " ", "s",
      "p", "e", "c", "i", "f", "i", "e", "d", ",", " ", "o", "r", " ", "A",
      "m", "e", "r", "i", "c", "a", "n", " ", "I", "n", "d", "i", "a", "n",
      " ", "o", "r", " ", "A", "l", "a", "s", "k", "a", " ", "N", "a", "t",
      "i", "v", "e", ",", " ", "n", "o", "t", " ", "s", "p", "e", "c", "i",
      "f", "i", "e", "d", " ", "a", "n", "d", " ", "n", "o", " ", "o", "t",
      "h", "e", "r", " ", "r", "a", "c", "e", "s">>>>,
      <<6, <<"A", "s", "i", "a", "n">>>>,
      <<7, <<"N", "a", "t", "i", "v", "e", " ", "H", "a", "w", "a", "i", "i", "a",
      "n", " ", "a", "n", "d", " ", "O", "t", "h", "e", "r", " ", "P", "a",
      "c", "i", "f", "i", "c", " ", "I", "s", "l", "a", "n", "d", "e", "r">>>>,
      <<8, <<"S", "o", "m", "e", " ", "o", "t", "h", "e", "r", " ", "r", "a", "c",
      "e", " ", "a", "l", "o", "n", "e", " ", "(", "n", "o", "n", "-", "W",
      "h", "i", "t", "e", ")">>>>,
      <<9, <<"T", "w", "o", " ", "o", "r", " ", "m", "o", "r", "e", " ", "r", "a",
      "c", "e", "s">>>>>>)

Def_RAC1P ==
    [var |-> "acs_race", args |-> Args("RAC1P", SD_RAC1P, DictVM(Map_RAC1P), NoQ, Str_is, Str_NA)]

SD_PINCP ==
    <<"y", "e", "a", "r", "l", "y", " ", "i", "n", "c", "o", "m", "e">>

Fill_PINCP ==
    <<"N", "/", "A", " ", "(", "l", "e", "s", "s", " ", "t", "h", "a", "n",
      " ", "1", "5", " ", "y", "e", "a", "r", "s", " ", "o", "l", "d", ")">>

Def_PINCP ==
    [var |-> "acs_income", args |-> Args("PINCP", SD_PINCP, NoneVM, NoQ, Str_is, Fill_PINCP)]

SD_PINCP_binary ==
    <<"y", "e", "a", "r", "l", "y", " ", "i", "n", "c", "o", "m", "e">>

Fill_PINCP_binary ==
    <<"N", "/", "A", " ", "(", "l", "e", "s", "s", " ", "t", "h", "a", "n",
      " ", "1", "5", " ", "y", "e", "a", "r", "s", " ", "o", "l", "d", ")">>

Choices_PINCP_binary ==
    <<
      Choice(<<"B", "e", "l", "o", "w", " ", "$", "5", "0", ",", "0", "0", "0">>, 0),
      Choice(<<"A", "b", "o", "v", "e", " ", "$", "5", "0", ",", "0", "0", "0">>, 1)>>

Def_PINCP_binary ==
    [var |-> "acs_income", args |-> Args("PINCP_binary", SD_PINCP_binary, NoneVM, QuestionOf(Choices_PINCP_binary), Str_is, Fill_PINCP_binary)]

SD_PINCP_brackets ==
    <<"y", "e", "a", "r", "l", "y", " ", "i", "n", "c", "o", "m", "e">>

Fill_PINCP_brackets ==
    <<"N", "/", "A", " ", "(", "l", "e", "s", "s", " ", "t", "h", "a", "n",
      " ", "1", "5", " ", "y", "e", "a", "r", "s", " ", "o", "l", "d", ")">>

Choices_PINCP_brackets ==
    <<
      Choice(<<"L", "e", "s", "s", " ", "t", "h", "a", "n", " ", "$", "2", "5", ",",
      "0", "0", "0">>, <<"(", "0", ".", "0", ",", " ", "2", "5", "0", "0", "0", ".", "0", "]">>),
      Choice(<<"B", "e", "t", "w", "e", "e", "n", " ", "$", "2", "5", ",", "0", "0",
      "0", " ", "a", "n", "d", " ", "$", "5", "0", ",", "0", "0", "0">>, <<"(", "2", "5", "0", "0", "0", ".", "0", ",", " ", "5", "0", "0", "0",
      "0", ".", "0", "]">>),
      Choice(<<"B", "e", "t", "w", "e", "e", "n", " ", "$", "5", "0", ",", "0", "0",
      "0", " ", "a", "n", "d", " ", "$", "1", "0", "0", ",", "0", "0", "0">>, <<"(", "5", "0", "0", "0", "0", ".", "0", ",", " ", "1", "0", "0", "0",
      "0", "0", ".", "0", "]">>),
      Choice(<<"A", "b", "o", "v", "e", " ", "$", "1", "0", "0", ",", "0", "0", "0">>, <<"(", "1", "0", "0", "0", "0", "0", ".", "0", ",", " ", "i", "n", "f",
      "]">>)>>

Def_PINCP_brackets ==
    [var |-> "acs_income_brackets", args |-> Args("PINCP_brackets", SD_PINCP_brackets, NoneVM, QuestionOf(Choices_PINCP_brackets), Str_is, Fill_PINCP_brackets)]

SD_PUBCOV ==
    <<"p", "u", "b", "l", "i", "c", " ", "h", "e", "a", "l", "t", "h", " ",
      "i", "n", "s", "u", "r", "a", "n", "c", "e", " ", "c", "o", "v", "e",
      "r", "a", "g", "e">>

Choices_PUBCOV ==
    <<
      Choice(<<"N", "o", ",", " ", "i", "n", "d", "i", "v", "i", "d", "u", "a", "l",
      " ", "i", "s", " ", "n", "o", "t", " ", "c", "o", "v", "e", "r", "e",
      "d", " ", "b", "y", " ", "p", "u", "b", "l", "i", "c", " ", "h", "e",
      "a", "l", "t", "h", " ", "i", "n", "s", "u", "r", "a", "n", "c", "e">>, 0),
      Choice(<<"Y", "e", "s", ",", " ", "i", "n", "d", "i", "v", "i", "d", "u", "a",
      "l", " ", "i", "s", " ", "c", "o", "v", "e", "r", "e", "d", " ", "b",
      "y", " ", "p", "u", "b", "l", "i", "c", " ", "h", "e", "a", "l", "t",
      "h", " ", "i", "n", "s", "u", "r", "a", "n", "c", "e">>, 1)>>

Def_PUBCOV ==
    [var |-> "acs_pubcov", args |-> Args("PUBCOV", SD_PUBCOV, NoneVM, QuestionOf(Choices_PUBCOV), Str_is, Str_NA)]

RegistryDefs ==
    <<Def_AGEP,
      Def_COW,
      Def_SCHL,
      Def_MAR,
      Def_OCCP,
      Def_POBP,
      Def_RELP,
      Def_WKHP,
      Def_SEX,
      Def_RAC1P,
      Def_PINCP,
      Def_PINCP_binary,
      Def_PINCP_brackets,
      Def_PUBCOV>>

----------------------------------------------------------------------------
(* The state machine.                                                      *)

Threads ==
    {"t1", "t2"}

\* At most this many parse_pums_code calls are started by the threads.
MaxCalls ==
    3

NoOp ==
    [op |-> "none", value |-> 0, file |-> "-", post |-> "-"]

\* A thread that is not inside parse_pums_code; `out` and `raised` hold what
\* its latest call returned or raised.
IdleFrame(o, exc) ==
    [pc |-> "idle", value |-> 0, file |-> "-", post |-> "-",
     file_cache |-> <<>>, out |-> o, raised |-> exc]

CliStart ==
    [pc |-> "start", argv |-> <<>>, args |-> <<>>,
     population_filter_dict |-> <<>>, config |-> <<>>, raised |-> "none"]

Init ==
    /\ ctorArgs = <<>>
    /\ inst = <<>>
    /\ lastOp = NoOp
    /\ out = <<>>
    /\ raised = "none"
    /\ logs = {}
    /\ cache = <<>>
    /\ reads = [f \in Files |-> 0]
    /\ thr = [t \in Threads |-> IdleFrame(<<>>, "none")]
    /\ calls = 0
    /\ loadIdx = 1
    /\ loadState = "loading"
    /\ registry = <<>>
    /\ cli = CliStart

libVars ==
    <<ctorArgs, inst, lastOp, out, raised, logs>>

cacheVars ==
    <<cache, reads>>

thrVars ==
    <<thr, calls>>

loadVars ==
    <<loadIdx, loadState, registry>>

(* ---- direct library calls, one at a time (single-threaded use) ---- *)

\* The argument tuples the model constructs mappers from: every shape of
\* value_map and question, two settings of the text attributes.
CtorInputs ==
    { Args(t[1], t[2], vm, q, t[3], t[4]) :
        t \in { <<"RAC1P", SD_RAC1P, Str_is, Str_NA>>,
                <<"AGEP", SD_AGEP, Str_was, Fill_PINCP>> },
        vm \in { NoneVM, DictVM(Map_RAC1P), CallVM("age"),
                 PumsVM("occp", "occp"), PumsVM("pobp", "none"), OtherVM },
        q \in { NoQ, QuestionOf(Choices_SEX), OpenQ } }

\* x = ColumnToText(...): `inst` is what the call yielded.
Construct(a) ==
    LET m == ColumnToTextInit(a)
    IN  /\ ctorArgs' = <<a>>
        /\ inst' = m.inst
        /\ raised' = m.raised
        /\ logs' = m.logs
        /\ out' = <<>>
        /\ lastOp' = [NoOp EXCEPT !.op = "init"]
        /\ UNCHANGED <<cacheVars, thrVars, loadVars, cli>>

\* The effect of a completed call on the result and cache variables.
Returns(res) ==
    /\ out' = res.out
    /\ raised' = res.raised
    /\ logs' = res.logs
    /\ cache' = res.cache
    /\ reads' = res.reads

\* inst[value]
Lookup(value) ==
    /\ inst # <<>>
    /\ Returns(GetItem(inst[1], value, cache, reads))
    /\ lastOp' = [NoOp EXCEPT !.op = "getitem", !.value = value]
    /\ UNCHANGED <<ctorArgs, inst, thrVars, loadVars, cli>>

\* inst.get_text(value)
GetTextCall(value) ==
    /\ inst # <<>>
    /\ Returns(GetText(inst[1], value, cache, reads))
    /\ lastOp' = [NoOp EXCEPT !.op = "get_text", !.value = value]
    /\ UNCHANGED <<ctorArgs, inst, thrVars, loadVars, cli>>

\* parse_pums_code(value, file, postprocess) called directly
ParseCall(value, file, post) ==
    /\ Returns(ParsePumsCode(value, file, post, cache, reads))
    /\ lastOp' = [op |-> "parse", value |-> value, file |-> file, post |-> post]
    /\ UNCHANGED <<ctorArgs, inst, thrVars, loadVars, cli>>

Next ==
    \/ \E a \in CtorInputs : Construct(a)
    \/ \E value \in Codes : Lookup(value)
    \/ \E value \in Codes : GetTextCall(value)
    \/ \E value \in Codes, file \in Files, post \in Posts : ParseCall(value, file, post)

Spec ==
    Init /\ [][Next]_vars

(* ---- parse_pums_code called from several threads ---- *)

\* Codes and transforms the threads call with.
ThreadCodes ==
    {6, 9999}

\* A thread enters parse_pums_code.
ThreadCall(t, value, file, post) ==
    /\ thr[t].pc = "idle"
    /\ calls < MaxCalls
    /\ calls' = calls + 1
    /\ thr' = [thr EXCEPT ![t] = [pc |-> "check", value |-> value, file |-> file,
                                  post |-> post, file_cache |-> <<>>,
                                  out |-> <<>>, raised |-> "none"]]
    /\ UNCHANGED <<libVars, cacheVars, loadVars, cli>>

\* A variant of ThreadCheck under a per-path lock: the check waits while
\* another thread is loading the same path.
ThreadCheck_Locked(t) ==
    /\ thr[t].pc = "check"
    /\ \A u \in Threads \ {t} :
          ~(thr[u].pc \in {"open", "store"} /\ thr[u].file = thr[t].file)
    /\ thr' = [thr EXCEPT ![t].pc = IF InCache(cache, thr[t].file) THEN "get" ELSE "open"]
    /\ UNCHANGED <<libVars, cacheVars, calls, loadVars, cli>>

\* `if file not in cache:` -- the thread takes the branch the cache shows it
ThreadCheck(t) ==
    /\ thr[t].pc = "check"
    /\ thr' = [thr EXCEPT ![t].pc = IF InCache(cache, thr[t].file) THEN "get" ELSE "open"]
    /\ UNCHANGED <<libVars, cacheVars, calls, loadVars, cli>>

\* The body of the branch up to the loop's end: open the file and parse it
\* into the local file_cache (open raises for a path that names no file).
ThreadOpen(t) ==
    /\ thr[t].pc = "open"
    /\ \/ /\ thr[t].file \in DOMAIN Disk
          /\ thr' = [thr EXCEPT ![t].pc = "store",
                                ![t].file_cache = <<LoadTable(thr[t].file, thr[t].post)>>]
          /\ reads' = [reads EXCEPT ![thr[t].file] = @ + 1]
       \/ /\ thr[t].file \notin DOMAIN Disk
          /\ thr' = [thr EXCEPT ![t] = IdleFrame(<<>>, "FileNotFoundError")]
          /\ reads' = reads
    /\ UNCHANGED <<libVars, cache, calls, loadVars, cli>>

\* cache[file] = file_cache
ThreadStore(t) ==
    /\ thr[t].pc = "store"
    /\ cache' = StoreTable(cache, thr[t].file, thr[t].file_cache[1])
    /\ thr' = [thr EXCEPT ![t].pc = "get"]
    /\ UNCHANGED <<libVars, reads, calls, loadVars, cli>>

\* file_cache = cache[file] and the return
ThreadGet(t) ==
    /\ thr[t].pc = "get"
    /\ thr' = [thr EXCEPT ![t] =
                 IdleFrame(<<LookupCode(cache[thr[t].file], thr[t].value)>>, "none")]
    /\ UNCHANGED <<libVars, cacheVars, calls, loadVars, cli>>

NextThreads ==
    \/ \E t \in Threads, value \in ThreadCodes, file \in Files, post \in Posts :
          ThreadCall(t, value, file, post)
    \/ \E t \in Threads : ThreadCheck(t)
    \/ \E t \in Threads : ThreadOpen(t)
    \/ \E t \in Threads : ThreadStore(t)
    \/ \E t \in Threads : ThreadGet(t)

SpecThreads ==
    Init /\ [][NextThreads]_vars

(* ---- import of folktexts.acs.acs_columns ---- *)

\* The next module-level `name = ColumnToText(...)` statement.  An exception
\* of the constructor propagates out of the import.
LoadStep ==
    /\ loadState = "loading"
    /\ LET d == RegistryDefs[loadIdx]
           m == ColumnToTextInit(d.args)
       IN  IF m.raised # "none"
           THEN /\ loadState' = "aborted"
                /\ UNCHANGED <<loadIdx, registry>>
           ELSE /\ registry' = DictSet(registry, d.var, m.inst[1])
                /\ loadIdx' = loadIdx + 1
                /\ loadState' = IF loadIdx = Len(RegistryDefs) THEN "loaded" ELSE "loading"
    /\ UNCHANGED <<libVars, cacheVars, thrVars, cli>>

NextLoad ==
    \/ LoadStep
    \/ \E a \in CtorInputs : Construct(a)

SpecLoad ==
    Init /\ [][NextLoad]_vars

(* ---- python run_acs_benchmark.py <argv> ---- *)

DEFAULT_BATCH_SIZE ==
    30

DEFAULT_CONTEXT_SIZE ==
    500

DEFAULT_SEED ==
    42

\* The options added with required=True (the default of the cli_args loop).
Required ==
    {"model", "task_name", "results_dir", "data_dir"}

\* str.split(sep): the pieces of s between occurrences of the character sep
RECURSIVE StrSplit(_, _)
StrSplit(s, sep) ==
    IF \A i \in 1..Len(s) : s[i] # sep THEN <<s>>
    ELSE LET i == CHOOSE j \in 1..Len(s) : s[j] = sep /\ \A k \in 1..(j - 1) : s[k] # sep
         IN  <<SubSeq(s, 1, i - 1)>> \o StrSplit(SubSeq(s, i + 1, Len(s)), sep)

\* Command lines: which required options are given (at most one is left
\* out), which boolean flags are passed, whether the numeric options are
\* given, and the lists given to the two nargs="*" options (<<>>: the
\* option is not on the command line, << <<>> >>: it is, with no values).
Argvs ==
    [ given : {Required} \cup {Required \ {o} : o \in Required},
      dont_correct_order_bias : BOOLEAN,
      chat_prompt : BOOLEAN,
      direct_risk_prompting : BOOLEAN,
      reuse_few_shot_examples : BOOLEAN,
      numeric : BOOLEAN,
      use_feature_subset : { <<>>, << <<>> >>, << <<"AGEP", "SEX">> >> },
      use_population_filter : { <<>>, << <<>> >>, << <<Filter_SEX_1>> >>,
                                << <<Filter_SEX>> >>, << <<Filter_SEX_1, Filter_A_1_2>> >> } ]

\* parser.parse_args(): the namespace argparse builds from a command line
\* that gives every required option.  A store_true flag is its default
\* (False) unless passed; the store_false flag --dont-correct-order-bias is
\* its default (True) unless passed, and then False.
ParseArgs(argv) ==
    [ few_shot |-> IF argv.numeric THEN <<5>> ELSE <<>>,
      batch_size |-> IF argv.numeric THEN 8 ELSE DEFAULT_BATCH_SIZE,
      context_size |-> IF argv.numeric THEN 100 ELSE DEFAULT_CONTEXT_SIZE,
      seed |-> IF argv.numeric THEN 1 ELSE DEFAULT_SEED,
      dont_correct_order_bias |-> IF argv.dont_correct_order_bias THEN FALSE ELSE TRUE,
      chat_prompt |-> IF argv.chat_prompt THEN TRUE ELSE FALSE,
      direct_risk_prompting |-> IF argv.direct_risk_prompting THEN TRUE ELSE FALSE,
      reuse_few_shot_examples |-> IF argv.reuse_few_shot_examples THEN TRUE ELSE FALSE,
      use_feature_subset |-> argv.use_feature_subset,
      use_population_filter |-> argv.use_population_filter ]

\* The loop over args.use_population_filter: col_name, col_value =
\* filter_str.split("=") needs exactly two pieces.  <<>> when some item does
\* not unpack, else <<the dict>>.
RECURSIVE FilterDict(_, _)
FilterDict(d, items) ==
    IF items = <<>> THEN <<d>>
    ELSE LET parts == StrSplit(Head(items), "=")
         IN  IF Len(parts) # 2 THEN <<>>
             ELSE FilterDict(DictSet(d, parts[1], parts[2]), Tail(items))

\* The keyword arguments of BenchmarkConfig(...), evaluated in order:
\* <<>> when tuple(args.use_feature_subset) raises (the option was not
\* given, so the value is None), else <<the config>>.
FillConfig(args, population_filter_dict) ==
    IF args.use_feature_subset = <<>> THEN <<>>
    ELSE <<[ few_shot |-> args.few_shot,
             chat_prompt |-> args.chat_prompt,
             direct_risk_prompting |-> args.direct_risk_prompting,
             reuse_few_shot_examples |-> args.reuse_few_shot_examples,
             batch_size |-> args.batch_size,
             context_size |-> args.context_size,
             correct_order_bias |-> ~args.dont_correct_order_bias,
             feature_subset |-> IF args.use_feature_subset[1] = <<>> THEN <<>>
                                ELSE <<args.use_feature_subset[1]>>,
             population_filter |-> population_filter_dict,
             seed |-> args.seed ]>>

CliFail(exc) ==
    cli' = [cli EXCEPT !.pc = "failed", !.raised = exc]

CliIdle ==
    UNCHANGED <<libVars, cacheVars, thrVars, loadVars>>

\* parser.parse_args(): argparse exits (status 2) when a required option is
\* missing.
CliParse(argv) ==
    /\ cli.pc = "start"
    /\ IF argv.given # Required
       THEN cli' = [cli EXCEPT !.pc = "failed", !.argv = <<argv>>, !.raised = "SystemExit: 2"]
       ELSE cli' = [cli EXCEPT !.pc = "mkdir", !.argv = <<argv>>, !.args = <<ParseArgs(argv)>>]
    /\ CliIdle

\* results_dir.mkdir(parents=False, exist_ok=True): fails when the parent
\* directory does not exist.
CliMakeResultsDir ==
    /\ cli.pc = "mkdir"
    /\ \/ cli' = [cli EXCEPT !.pc = "filter"]
       \/ CliFail("FileNotFoundError")
    /\ CliIdle

\* The population filter block: skipped when the option is absent or
\* empty; else the ipdb breakpoint (ipdb may not be installed), then the
\* loop.
CliParseFilter ==
    /\ cli.pc = "filter"
    /\ LET given == cli.args[1].use_population_filter
       IN  IF given = <<>> \/ given[1] = <<>>
           THEN cli' = [cli EXCEPT !.pc = "model"]
           ELSE \/ CliFail("ModuleNotFoundError: ipdb")
                \/ LET d == FilterDict(<<>>, given[1])
                   IN  IF d = <<>> THEN CliFail("ValueError: unpack")
                       ELSE cli' = [cli EXCEPT !.pc = "model",
                                               !.population_filter_dict = d]
    /\ CliIdle

\* load_model_tokenizer(args.model): an external call that may raise
CliLoadModel ==
    /\ cli.pc = "model"
    /\ \/ cli' = [cli EXCEPT !.pc = "config"]
       \/ CliFail("load_model_tokenizer failed")
    /\ CliIdle

\* config = BenchmarkConfig(...)
CliFillConfig ==
    /\ cli.pc = "config"
    /\ LET config == FillConfig(cli.args[1], cli.population_filter_dict)
       IN  IF config = <<>> THEN CliFail("TypeError: 'NoneType' object is not iterable")
           ELSE cli' = [cli EXCEPT !.pc = "bench", !.config = config]
    /\ CliIdle

\* CalibrationBenchmark.make_acs_benchmark(...): an external call
CliMakeBenchmark ==
    /\ cli.pc = "bench"
    /\ \/ cli' = [cli EXCEPT !.pc = "run"]
       \/ CliFail("make_acs_benchmark failed")
    /\ CliIdle

\* bench.run, plot_results, save_results: external calls
CliRun ==
    /\ cli.pc = "run"
    /\ \/ cli' = [cli EXCEPT !.pc = "done"]
       \/ CliFail("benchmark run failed")
    /\ CliIdle

NextCli ==
    \/ \E argv \in Argvs : CliParse(argv)
    \/ CliMakeResultsDir
    \/ CliParseFilter
    \/ CliLoadModel
    \/ CliFillConfig
    \/ CliMakeBenchmark
    \/ CliRun

SpecCli ==
    Init /\ [][NextCli]_vars

----------------------------------------------------------------------------
(* Properties.                                                             *)

\* The arguments of the latest constructor call give neither a value_map
\* nor a question.
NeitherGiven(a) ==
    a.value_map.kind = "none" /\ a.question.kind = "none"

\* They give a question that is not multiple-choice, and no value_map.
CannotInfer(a) ==
    a.value_map.kind = "none" /\ a.question.kind = "open"

\* C1: constructing a ColumnToText raises a ValueError and yields no
\* instance exactly when neither value_map nor question is given, or a
\* question that is not multiple-choice is given without a value_map; every
\* other construction succeeds and the instance's value map is not None.
C1_ConstructionErrors ==
    ctorArgs # <<>> =>
        LET a == ctorArgs[1]
        IN  /\ (inst = <<>>) <=> (NeitherGiven(a) \/ CannotInfer(a))
            /\ inst # <<>> => inst[1].value_map.kind # "none"
            /\ lastOp.op = "init" =>
                 /\ NeitherGiven(a) <=> raised = "ValueError: neither value_map nor question"
                 /\ CannotInfer(a) <=> raised = "ValueError: cannot infer value map"
                 /\ (inst # <<>>) <=> raised = "none"

\* A construction from a non-multiple-choice question alone has raised.
C1_Witness ==
    /\ lastOp.op = "init"
    /\ ctorArgs # <<>>
    /\ CannotInfer(ctorArgs[1])
    /\ inst = <<>>
    /\ raised = "ValueError: cannot infer value map"

\* C2: a mapper constructed with the explicit dict d and fallback m returns
\* d[v] for every key v of d and m for every other v, and does not raise.
C2_DictLookup ==
    (lastOp.op = "getitem" /\ ctorArgs[1].value_map.kind = "dict") =>
        LET d == ctorArgs[1].value_map.map
            m == ctorArgs[1].missing_value_fill
            v == lastOp.value
        IN  /\ raised = "none"
            /\ out = <<IF v \in DOMAIN d THEN d[v] ELSE m>>

\* A lookup of a value that is no key has returned a configured fallback
\* other than the default "N/A".
C2_Witness ==
    /\ lastOp.op = "getitem"
    /\ ctorArgs[1].value_map.kind = "dict"
    /\ lastOp.value \notin DOMAIN ctorArgs[1].value_map.map
    /\ out = <<Fill_PINCP>>

\* C3: in single-threaded use every path is read from disk at most once;
\* once a path is cached its table never changes and is never read again,
\* and a call for a cached path answers from the cached table.
C3_ReadOnce ==
    /\ [](\A f \in Files : reads[f] <= 1)
    /\ [][\A f \in DOMAIN cache :
            /\ f \in DOMAIN cache'
            /\ cache'[f] = cache[f]
            /\ reads'[f] = reads[f]]_vars
    /\ [][(lastOp'.op = "parse" /\ lastOp'.file \in DOMAIN cache) =>
            /\ raised' = "none"
            /\ out' = <<IF lastOp'.value \in DOMAIN cache[lastOp'.file]
                        THEN cache[lastOp'.file][lastOp'.value]
                        ELSE Str_NA>>]_vars

\* A call with the occupation transform has been answered from the table
\* that an earlier call without transform had loaded: the file was read once.
C3_Witness ==
    /\ lastOp.op = "parse"
    /\ lastOp.file = "pobp"
    /\ lastOp.post = "occp"
    /\ reads["pobp"] = 1
    /\ "pobp" \in DOMAIN cache
    /\ cache["pobp"] = LoadTable("pobp", "none")
    /\ out = <<Str_SpTeacher>>

\* C4 as stated: without a text transform, code 6 of a file with the line
\* "6 . Teacher" comes back as exactly "Teacher".
C4_Original ==
    [][(/\ lastOp'.op = "parse"
        /\ lastOp'.file = "pobp"
        /\ lastOp'.post = "none"
        /\ lastOp'.value = 6
        /\ "pobp" \notin DOMAIN cache) => out' = <<Str_Teacher>>]_vars

\* C4 as amended: a call without a text transform that loads the file
\* returns " Teacher" for code 6, the description keeping the space that
\* follows the dot; a call on a file on disk never raises and returns "N/A"
\* for every code absent from the path's table.
C4_LeadingSpaceKept ==
    /\ [][(/\ lastOp'.op = "parse"
           /\ lastOp'.file = "pobp"
           /\ lastOp'.post = "none"
           /\ lastOp'.value = 6
           /\ "pobp" \notin DOMAIN cache) => out' = <<Str_SpTeacher>>]_vars
    /\ []((lastOp.op = "parse" /\ lastOp.file \in DOMAIN Disk) =>
            /\ raised = "none"
            /\ lastOp.file \in DOMAIN cache
            /\ lastOp.value \notin DOMAIN cache[lastOp.file] => out = <<Str_NA>>)

\* The first call for the file asked for code 6 without a transform.
C4_Witness ==
    /\ lastOp = [op |-> "parse", value |-> 6, file |-> "pobp", post |-> "none"]
    /\ cache = [pobp |-> LoadTable("pobp", "none")]
    /\ out = <<Str_SpTeacher>>

\* C5: the import of the registry never aborts, and once it has finished
\* every column variable is bound to an instance.
C5_RegistryLoads ==
    /\ loadState # "aborted"
    /\ loadState = "loaded" =>
         \A i \in 1..Len(RegistryDefs) : RegistryDefs[i].var \in DOMAIN registry

\* C6: the configuration corrects order bias unless
\* --dont-correct-order-bias is passed.
C6_OrderBiasDefaultOn ==
    cli.config # <<>> =>
        cli.config[1].correct_order_bias = ~cli.argv[1].dont_correct_order_bias

\* The command line gives the four required options and nothing else.
OnlyRequired(argv) ==
    /\ argv.given = Required
    /\ ~argv.dont_correct_order_bias
    /\ ~argv.chat_prompt
    /\ ~argv.direct_risk_prompting
    /\ ~argv.reuse_few_shot_examples
    /\ ~argv.numeric
    /\ argv.use_feature_subset = <<>>
    /\ argv.use_population_filter = <<>>

\* C7: a run with only the four required options fails, if at all, in an
\* external call (the results directory, the model, the benchmark), and
\* once the model is loaded it has a configuration whose feature_subset is
\* None.
C7_FeatureSubsetOptional ==
    (cli.argv # <<>> /\ OnlyRequired(cli.argv[1])) =>
        /\ cli.pc = "failed" =>
             cli.raised \in {"FileNotFoundError", "load_model_tokenizer failed",
                             "make_acs_benchmark failed", "benchmark run failed"}
        /\ cli.pc \in {"bench", "run", "done"} =>
             cli.config # <<>> /\ cli.config[1].feature_subset = <<>>

\* C8 as stated: no lookup or get_text on a constructed mapper raises the
\* invalid-value-map error.
C8_Original ==
    (inst # <<>> /\ lastOp.op \in {"getitem", "get_text"}) =>
        raised # "ValueError: invalid value map type"

\* C8 as amended: lookup and get_text on a constructed mapper raise the
\* invalid-value-map ValueError exactly when its value map is neither a
\* dict nor a callable (construction accepts such an object unchecked);
\* on a dict-backed mapper they never raise.
C8_TypeErrorAtLookup ==
    (inst # <<>> /\ lastOp.op \in {"getitem", "get_text"}) =>
        /\ raised = "ValueError: invalid value map type"
             <=> inst[1].value_map.kind \notin {"dict", "callable"}
        /\ inst[1].value_map.kind = "dict" => raised = "none"

\* get_text on a mapper built from an object that is neither dict nor
\* callable has raised.
C8_Witness ==
    /\ inst # <<>>
    /\ ctorArgs[1].value_map.kind = "other"
    /\ lastOp.op = "get_text"
    /\ raised = "ValueError: invalid value map type"

\* What mapper[v] is expected to give for a mapper `self`, the cache being c.
ExpectedItem(self, v, c) ==
    IF self.value_map.kind = "dict"
    THEN IF v \in DOMAIN self.value_map.map THEN self.value_map.map[v]
         ELSE self.missing_value_fill
    ELSE IF self.value_map.fn = "pums"
    THEN IF v \in DOMAIN c[self.value_map.file] THEN c[self.value_map.file][v]
         ELSE Str_NA
    ELSE NatToStr(v) \o Str_years_old

\* C9: get_text(v) returns "The " + short_description + " " +
\* connector_verb + " " + mapper[v] + "." (for a callable-backed mapper the
\* callable's result, never the configured fallback), it raises only when
\* the lookup does, and it leaves the mapper unchanged; the race mapper
\* renders 6 as "The race is Asian.".
C9_Sentence ==
    /\ []((lastOp.op = "get_text" /\ raised = "none") =>
            out = <<Str_The \o inst[1].short_description \o <<" ">>
                    \o inst[1].connector_verb \o <<" ">>
                    \o ExpectedItem(inst[1], lastOp.value, cache) \o <<".">>>>)
    /\ []((lastOp.op = "get_text" /\ raised # "none") =>
            inst[1].value_map.kind = "other")
    /\ []((/\ lastOp.op = "get_text"
           /\ lastOp.value = 6
           /\ inst[1].short_description = SD_RAC1P
           /\ inst[1].connector_verb = Str_is
           /\ inst[1].value_map = DictVM(Map_RAC1P)) =>
            out = <<Str_The_race_is_Asian>>)
    /\ [][lastOp'.op = "get_text" => (inst' = inst /\ ctorArgs' = ctorArgs)]_vars

\* The race mapper has rendered the value 6.
C9_Witness ==
    /\ lastOp.op = "get_text"
    /\ lastOp.value = 6
    /\ inst[1].value_map = DictVM(Map_RAC1P)
    /\ out = <<Str_The_race_is_Asian>>

\* Only thread t has ever called parse_pums_code.
OnlyThread(t) ==
    \A u \in Threads \ {t} : thr[u] = IdleFrame(<<>>, "none")

\* C10: nothing guards the check-then-populate step.  A thread at the check
\* is never held back by the others, and a thread that has parsed the file
\* writes the cache entry whatever the cache holds by then; so a path is
\* read at most once per call, but at most once overall only while a
\* single thread makes the calls.
C10_Unguarded ==
    /\ \A t \in Threads :
         /\ thr[t].pc = "check" => ENABLED ThreadCheck(t)
         /\ thr[t].pc = "store" => ENABLED ThreadStore(t)
    /\ \A f \in Files : reads[f] <= calls
    /\ \A t \in Threads : OnlyThread(t) => \A f \in Files : reads[f] <= 1

\* Both threads found the same path absent, both have read and parsed the
\* file, and both are about to write the cache entry.
C10_Witness ==
    /\ \A t \in Threads : thr[t].pc = "store" /\ thr[t].file = "pobp"
    /\ reads["pobp"] = 2
    /\ "pobp" \notin DOMAIN cache

\* The transform of the call that the latest step completed: the one passed
\* to parse_pums_code, or the one bound in the mapper's callable.
CallPost ==
    IF lastOp'.op = "parse" THEN lastOp'.post ELSE inst[1].value_map.post

\* The path of that call.
CallFile ==
    IF lastOp'.op = "parse" THEN lastOp'.file ELSE inst[1].value_map.file

\* The latest step completed a parse_pums_code call, made directly or
\* through a mapper whose value map is bound to it.
IsPumsCall ==
    \/ lastOp'.op = "parse"
    \/ /\ lastOp'.op \in {"getitem", "get_text"}
       /\ inst # <<>>
       /\ inst[1].value_map.fn = "pums"

\* C11: the cache is keyed by path alone.  The call that populates a path
\* stores each raw description as post-processed by its own transform; a
\* later call for the path leaves the table as it is and, passed directly,
\* returns the stored value whatever transform it supplies.
C11_KeyedByPathOnly ==
    /\ [][\A f \in DOMAIN Disk :
            (f \notin DOMAIN cache /\ f \in DOMAIN cache') =>
               /\ IsPumsCall
               /\ CallFile = f
               /\ DOMAIN cache'[f] = DOMAIN LoadTable(f, "none")
               /\ \A k \in DOMAIN cache'[f] :
                     cache'[f][k] = PostProcess(CallPost, LoadTable(f, "none")[k])]_vars
    /\ [][(lastOp'.op = "parse" /\ lastOp'.file \in DOMAIN cache) =>
            /\ cache' = cache
            /\ \A k \in DOMAIN cache[lastOp'.file] :
                  lastOp'.value = k => out' = <<cache[lastOp'.file][k]>>]_vars

\* A call without transform for code 6 got "cher", the value stored by an
\* earlier call with the occupation transform, and not the raw description.
C11_Witness ==
    /\ lastOp = [op |-> "parse", value |-> 6, file |-> "pobp", post |-> "none"]
    /\ "pobp" \in DOMAIN cache
    /\ out = <<cache["pobp"][6]>>
    /\ out = <<<<"c", "h", "e", "r">>>>
    /\ out # <<PostProcess("none", LoadTable("pobp", "none")[6])>>

====
